---- MODULE Spec2Model ----
(***************************************************************************)
(* Model of src/cli/commands/licenses.js: the `yarn licenses` command.     *)
(*                                                                         *)
(* One invocation of `run` is modelled: the sub-command handler (ls, list, *)
(* generateDisclaimer), the two awaited provider steps of getManifests     *)
(* (Lockfile.fromDirectory, install.hydrate), the sort and filter of       *)
(* getManifests, the grouping loop of list and the three outputs           *)
(* (reporter.table, reporter.tree, console.log).                           *)
(*                                                                         *)
(* JavaScript values.  An optional value is a sequence of length 0 or 1:   *)
(* None is `undefined`, Some(v) is the value v.  A string field is truthy  *)
(* when it is defined and not the empty string, an object field when it is *)
(* defined.  Array.prototype.sort is taken to be stable (ECMAScript 2019). *)
(***************************************************************************)
EXTENDS Integers, Sequences, FiniteSets

\* Longest manifest list the provider returns in the ordering and grouping
\* families, and in the field family.
MaxLen == 3
MaxFieldLen == 2

None == <<>>
Some(v) == <<v>>

\* !!x for a string-valued and for an object-valued optional field
TruthyStr(o) == o # None /\ o[1] # ""
TruthyObj(o) == o # None
\* !!x for an optional boolean
TruthyBool(o) == o # None /\ o[1]
\* !!x for an optional text (a sequence of characters)
TruthyText(o) == o # None /\ o[1] # <<>>

\* String(x) as a template literal applies it
templateString(o) == IF o = None THEN "undefined" ELSE o[1]

-----------------------------------------------------------------------------
(* The manifests the provider can return *)

Base ==
  [name |-> Some("a"), version |-> "1.0", license |-> None,
   repository |-> None, homepage |-> None, author |-> None,
   licenseText |-> None, private |-> None,
   _reference |-> Some([ignore |-> FALSE])]

Refs == {None, Some([ignore |-> TRUE]), Some([ignore |-> FALSE])}

\* ordering family: names, versions and references vary
OrderManifests ==
  {[Base EXCEPT !.name = n, !.version = v, !._reference = r] :
     n \in {None, Some("a"), Some("B")}, v \in {"1.0", "2.0"}, r \in Refs}

\* grouping family: names, versions, licenses and homepages vary
GroupManifests ==
  {[Base EXCEPT !.name = n, !.version = v, !.license = l, !.homepage = h] :
     n \in {Some("a"), Some("B")}, v \in {"1.0", "2.0"},
     l \in {None, Some("MIT")}, h \in {None, Some("h1")}}

\* field family: repository, homepage and author vary
FieldManifests ==
  {[Base EXCEPT !.repository = rp, !.homepage = h, !.author = au] :
     rp \in {None, Some([url |-> None]), Some([url |-> Some("r1")])},
     h \in {None, Some(""), Some("h1")},
     au \in {None, Some([name |-> Some("n1"), url |-> None]),
             Some([name |-> Some(""), url |-> Some("u1")])}}

\* disclaimer family: names, references, privacy and licence texts vary
DisclaimerManifests ==
  {[Base EXCEPT !.name = n, !._reference = r, !.private = p, !.licenseText = t] :
     n \in {Some("a"), Some("B")},
     r \in {Some([ignore |-> TRUE]), Some([ignore |-> FALSE])},
     p \in {None, Some(TRUE)},
     t \in {None, Some(<<" ", "T", " ">>)}}

Lists(F, n) == UNION {[1..k -> F] : k \in 0..n}

-----------------------------------------------------------------------------
(* getManifests: sort by name, filter ignored manifests *)

\* String.prototype.localeCompare on the names of the model: the locale
\* collation puts "a" before "B" before "b" (code-unit order puts "B" first)
LocaleOrder == <<"a", "B", "b">>
LocaleRank(s) == CHOOSE i \in 1..Len(LocaleOrder) : LocaleOrder[i] = s
localeCompare(x, y) ==
  IF LocaleRank(x) < LocaleRank(y) THEN -1
  ELSE IF LocaleRank(x) > LocaleRank(y) THEN 1 ELSE 0

\* the comparator with the two one-sided tests exchanged: unnamed first
compareByName_unnamedFirst(a, b) ==
  IF ~TruthyStr(a.name) /\ ~TruthyStr(b.name) THEN 0
  ELSE IF ~TruthyStr(a.name) THEN -1
  ELSE IF ~TruthyStr(b.name) THEN 1
  ELSE localeCompare(a.name[1], b.name[1])

\* the comparator of lines 26-40
compareByName(a, b) ==
  IF ~TruthyStr(a.name) /\ ~TruthyStr(b.name) THEN 0
  ELSE IF ~TruthyStr(a.name) THEN 1
  ELSE IF ~TruthyStr(b.name) THEN -1
  ELSE localeCompare(a.name[1], b.name[1])

\* x put into the sorted sequence s behind every element that does not
\* compare greater than x
RECURSIVE insertSorted(_, _)
insertSorted(s, x) ==
  IF s = <<>> THEN <<x>>
  ELSE IF compareByName(Head(s), x) > 0 THEN <<x>> \o s
  ELSE <<Head(s)>> \o insertSorted(Tail(s), x)

\* Array.prototype.sort with compareByName, stable
RECURSIVE sortFrom(_, _)
sortFrom(s, acc) ==
  IF s = <<>> THEN acc ELSE sortFrom(Tail(s), insertSorted(acc, Head(s)))
sortByName(s) == sortFrom(s, <<>>)

\* the predicate of lines 43-46
notIgnored(manifest) ==
  LET ref == manifest._reference
  IN  TruthyObj(ref) /\ ~ref[1].ignore

filterIgnored(s) == SelectSeq(s, notIgnored)

\* lines 23-48, applied to what install.resolver.getManifests() returns
getManifests(resolved) == filterIgnored(sortByName(resolved))

-----------------------------------------------------------------------------
(* A JavaScript Map: a sequence of [key, value] in insertion order *)

MapHas(m, k) == \E i \in 1..Len(m) : m[i].key = k
MapIndex(m, k) == CHOOSE i \in 1..Len(m) : m[i].key = k
MapGet(m, k) == m[MapIndex(m, k)].value
\* a set that moves a present key to the end
MapSet_moveToEnd(m, k, v) ==
  Append(SelectSeq(m, LAMBDA x : x.key # k), [key |-> k, value |-> v])

\* Map.prototype.set: a present key keeps its position and gets the value
MapSet(m, k, v) ==
  IF MapHas(m, k)
  THEN [m EXCEPT ![MapIndex(m, k)] = [key |-> k, value |-> v]]
  ELSE Append(m, [key |-> k, value |-> v])

-----------------------------------------------------------------------------
(* list: grouping (lines 53-74) *)

\* the license key without its fallback
licenseKey_noFallback(m) == templateString(m.license)

\* license || 'UNKNOWN'
licenseKey(m) == IF TruthyStr(m.license) THEN m.license[1] ELSE "UNKNOWN"
\* repository ? repository.url : homepage
url(m) == IF TruthyObj(m.repository) THEN m.repository[1].url ELSE m.homepage
\* author && author.url, author && author.name
authorUrl(m) == IF TruthyObj(m.author) THEN m.author[1].url ELSE None
authorName(m) == IF TruthyObj(m.author) THEN m.author[1].name ELSE None
\* homepage || (author && author.url)
vendorUrl(m) == IF TruthyStr(m.homepage) THEN m.homepage ELSE authorUrl(m)
vendorName(m) == authorName(m)
\* `${name}@${version}`
packageKey(name, version) == templateString(name) \o "@" \o version

licenseInfo(m) ==
  [name |-> m.name, version |-> m.version, url |-> url(m),
   vendorUrl |-> vendorUrl(m), vendorName |-> vendorName(m)]

\* one iteration of the loop of lines 55-74
groupOne(byLicense, m) ==
  LET lk == licenseKey(m)
      withBucket == IF MapHas(byLicense, lk) THEN byLicense
                    ELSE MapSet(byLicense, lk, <<>>)
      bucket == MapGet(withBucket, lk)
  IN  MapSet(withBucket, lk,
             MapSet(bucket, packageKey(m.name, m.version), licenseInfo(m)))

RECURSIVE groupFrom(_, _)
groupFrom(ms, byLicense) ==
  IF ms = <<>> THEN byLicense
  ELSE groupFrom(Tail(ms), groupOne(byLicense, Head(ms)))
group(ms) == groupFrom(ms, <<>>)

-----------------------------------------------------------------------------
(* list: tabular output (lines 76-85) *)

\* the cell without its fallback
orUnknown_noFallback(o) == templateString(o)

\* x || 'Unknown'
orUnknown(o) == IF TruthyStr(o) THEN o[1] ELSE "Unknown"

tableRow(lk, info) ==
  <<info.name, info.version, lk, orUnknown(info.url),
    orUnknown(info.vendorUrl), orUnknown(info.vendorName)>>

\* license.forEach(...) of line 80: the rows of one bucket
RECURSIVE bucketRows(_, _)
bucketRows(lk, entries) ==
  IF entries = <<>> THEN <<>>
  ELSE <<tableRow(lk, Head(entries).value)>> \o bucketRows(lk, Tail(entries))

\* manifestsByLicense.forEach(...) of line 79
RECURSIVE tableBody(_)
tableBody(byLicense) ==
  IF byLicense = <<>> THEN <<>>
  ELSE bucketRows(Head(byLicense).key, Head(byLicense).value)
         \o tableBody(Tail(byLicense))

tableHead == <<"Name", "Version", "License", "URL", "VendorUrl", "VendorName">>

-----------------------------------------------------------------------------
(* list: tree output (lines 87-119) *)

\* `${reporter.format.bold(label)} ${value}`: the emphasised label and the
\* text behind it
leaf(label, value) == [name |-> [bold |-> label, text |-> value]]

\* the leaves with VendorName ahead of VendorUrl
packageChildren_swapped(info) ==
  (IF TruthyStr(info.url) THEN <<leaf("URL:", info.url[1])>> ELSE <<>>)
  \o (IF TruthyStr(info.vendorName)
      THEN <<leaf("VendorName:", info.vendorName[1])>> ELSE <<>>)
  \o (IF TruthyStr(info.vendorUrl)
      THEN <<leaf("VendorUrl:", info.vendorUrl[1])>> ELSE <<>>)

packageChildren(info) ==
  (IF TruthyStr(info.url) THEN <<leaf("URL:", info.url[1])>> ELSE <<>>)
  \o (IF TruthyStr(info.vendorUrl)
      THEN <<leaf("VendorUrl:", info.vendorUrl[1])>> ELSE <<>>)
  \o (IF TruthyStr(info.vendorName)
      THEN <<leaf("VendorName:", info.vendorName[1])>> ELSE <<>>)

packageNode(info) ==
  [name |-> packageKey(info.name, info.version),
   children |-> packageChildren(info)]

\* license.forEach(...) of line 92
RECURSIVE licenseTree(_)
licenseTree(entries) ==
  IF entries = <<>> THEN <<>>
  ELSE <<packageNode(Head(entries).value)>> \o licenseTree(Tail(entries))

\* manifestsByLicense.forEach(...) of line 89
RECURSIVE trees(_)
trees(byLicense) ==
  IF byLicense = <<>> THEN <<>>
  ELSE <<[name |-> Head(byLicense).key,
          children |-> licenseTree(Head(byLicense).value)]>>
         \o trees(Tail(byLicense))

-----------------------------------------------------------------------------
(* generateDisclaimer (lines 135-148) *)

WhiteSpace == {" ", "\t", "\n"}

RECURSIVE trimStart(_)
trimStart(t) ==
  IF t # <<>> /\ Head(t) \in WhiteSpace THEN trimStart(Tail(t)) ELSE t
RECURSIVE trimEnd(_)
trimEnd(t) ==
  IF t # <<>> /\ t[Len(t)] \in WhiteSpace
  THEN trimEnd(SubSeq(t, 1, Len(t) - 1)) ELSE t
\* String.prototype.trim
trim(t) == trimEnd(trimStart(t))

disclaimerEntry(m) ==
  [name |-> m.name, version |-> Some(m.version),
   licenseText |-> IF TruthyText(m.licenseText)
                   THEN Some(trim(m.licenseText[1])) ELSE None,
   license |-> m.license, homepage |-> m.homepage]

\* the loop without its test of private
RECURSIVE disclaimerData_keepPrivate(_)
disclaimerData_keepPrivate(ms) ==
  IF ms = <<>> THEN <<>>
  ELSE <<disclaimerEntry(Head(ms))>> \o disclaimerData_keepPrivate(Tail(ms))

\* the loop of lines 139-145
RECURSIVE disclaimerData(_)
disclaimerData(ms) ==
  IF ms = <<>> THEN <<>>
  ELSE (IF ~TruthyBool(Head(ms).private)
        THEN <<disclaimerEntry(Head(ms))>> ELSE <<>>)
       \o disclaimerData(Tail(ms))

\* JSON.stringify of an object: properties holding undefined are left out
stringifyObject(o) ==
  [k \in {f \in DOMAIN o : o[f] # None} |-> o[k][1]]
\* JSON.stringify of an array of objects
stringify(data) == [i \in 1..Len(data) |-> stringifyObject(data[i])]

-----------------------------------------------------------------------------
(* The invocation *)

VARIABLES
  family,             \* which manifests the provider's project holds
  cmd,                \* the sub-command: "ls", "list", "generateDisclaimer"
  flags,              \* the flags of the invocation
  pc,                 \* where the handler is
  resolved,           \* what install.resolver.getManifests() returned
  manifests,          \* what getManifests returned
  manifestsByLicense, \* the map built by list
  warnCalls, tableCalls, treeCalls,   \* the calls made on the reporter
  stdout,             \* the console.log writes
  lockfileCalls, hydrateCalls,        \* the calls made on the provider
  thrown,             \* the error the provider threw
  rejection           \* the error run rejected with

vars == <<family, cmd, flags, pc, resolved, manifests, manifestsByLicense,
          warnCalls, tableCalls, treeCalls, stdout, lockfileCalls,
          hydrateCalls, thrown, rejection>>

Families == {"order", "group", "field", "disclaimer"}
Commands == {"ls", "list", "generateDisclaimer"}
LockfileErrors == {"lockfile error"}
HydrateErrors == {"resolution error"}

ListsOf(f) ==
  CASE f = "order" -> Lists(OrderManifests, MaxLen)
    [] f = "group" -> Lists(GroupManifests, MaxLen)
    [] f = "field" -> Lists(FieldManifests, MaxFieldLen)
    [] f = "disclaimer" -> Lists(DisclaimerManifests, MaxLen)

InitIn(fs) ==
  /\ family \in fs
  /\ cmd \in Commands
  /\ flags \in [json : BOOLEAN]
  /\ pc = "start"
  /\ resolved = <<>>
  /\ manifests = <<>>
  /\ manifestsByLicense = <<>>
  /\ warnCalls = <<>>
  /\ tableCalls = <<>>
  /\ treeCalls = <<>>
  /\ stdout = <<>>
  /\ lockfileCalls = 0
  /\ hydrateCalls = 0
  /\ thrown = None
  /\ rejection = None

Init == InitIn(Families)

\* the message of line 127 (its backquotes left out)
deprecation == "yarn licenses ls is deprecated. Please use yarn licenses list."

\* ls without its warning
ls_silent ==
  /\ pc = "start" /\ cmd = "ls"
  /\ pc' = "getManifests"
  /\ UNCHANGED <<family, cmd, flags, resolved, manifests, manifestsByLicense,
                 warnCalls, tableCalls, treeCalls, stdout, lockfileCalls,
                 hydrateCalls, thrown, rejection>>

\* the ls handler up to its call of list (lines 126-128)
ls ==
  /\ pc = "start" /\ cmd = "ls"
  /\ warnCalls' = Append(warnCalls, deprecation)
  /\ pc' = "getManifests"
  /\ UNCHANGED <<family, cmd, flags, resolved, manifests, manifestsByLicense,
                 tableCalls, treeCalls, stdout, lockfileCalls, hydrateCalls,
                 thrown, rejection>>

\* the list and generateDisclaimer handlers up to their call of
\* getManifests (lines 131-132, 135-136)
enter ==
  /\ pc = "start" /\ cmd \in {"list", "generateDisclaimer"}
  /\ pc' = "getManifests"
  /\ UNCHANGED <<family, cmd, flags, resolved, manifests, manifestsByLicense,
                 warnCalls, tableCalls, treeCalls, stdout, lockfileCalls,
                 hydrateCalls, thrown, rejection>>

\* a handler that catches the error and throws one of its own
reject_wrapped(e) ==
  /\ thrown' = Some(e)
  /\ rejection' = Some("licenses failed")
  /\ pc' = "rejected"

\* an error thrown inside an await of getManifests: no handler catches it,
\* the promise of run rejects with it
reject(e) ==
  /\ thrown' = Some(e)
  /\ rejection' = Some(e)
  /\ pc' = "rejected"

\* await Lockfile.fromDirectory(config.cwd) (line 19)
lockfileFromDirectory ==
  /\ pc = "getManifests"
  /\ lockfileCalls' = lockfileCalls + 1
  /\ \/ pc' = "hydrate" /\ UNCHANGED <<thrown, rejection>>
     \/ \E e \in LockfileErrors : reject(e)
  /\ UNCHANGED <<family, cmd, flags, resolved, manifests, manifestsByLicense,
                 warnCalls, tableCalls, treeCalls, stdout, hydrateCalls>>

\* await install.hydrate(true) and the rest of getManifests (lines 20-48)
hydrate ==
  /\ pc = "hydrate"
  /\ hydrateCalls' = hydrateCalls + 1
  /\ \/ /\ \E r \in ListsOf(family) :
             /\ resolved' = r
             /\ manifests' = getManifests(r)
          /\ pc' = "manifests"
          /\ UNCHANGED <<thrown, rejection>>
     \/ /\ \E e \in HydrateErrors : reject(e)
        /\ UNCHANGED <<resolved, manifests>>
  /\ UNCHANGED <<family, cmd, flags, manifestsByLicense, warnCalls,
                 tableCalls, treeCalls, stdout, lockfileCalls>>

\* list after getManifests, json flag set (lines 53-85)
listTable ==
  /\ pc = "manifests" /\ cmd \in {"ls", "list"} /\ flags.json
  /\ manifestsByLicense' = group(manifests)
  /\ tableCalls' = Append(tableCalls,
                          [head |-> tableHead,
                           body |-> tableBody(manifestsByLicense')])
  /\ pc' = "done"
  /\ UNCHANGED <<family, cmd, flags, resolved, manifests, warnCalls,
                 treeCalls, stdout, lockfileCalls, hydrateCalls, thrown,
                 rejection>>

\* the tree branch taken whatever the json flag
listTree_always ==
  /\ pc = "manifests" /\ cmd \in {"ls", "list"}
  /\ manifestsByLicense' = group(manifests)
  /\ treeCalls' = Append(treeCalls,
                         [key |-> "licenses",
                          trees |-> trees(manifestsByLicense'),
                          opts |-> [force |-> TRUE]])
  /\ pc' = "done"
  /\ UNCHANGED <<family, cmd, flags, resolved, manifests, warnCalls,
                 tableCalls, stdout, lockfileCalls, hydrateCalls, thrown,
                 rejection>>

\* list after getManifests, json flag not set (lines 53-74, 86-120)
listTree ==
  /\ pc = "manifests" /\ cmd \in {"ls", "list"} /\ ~flags.json
  /\ manifestsByLicense' = group(manifests)
  /\ treeCalls' = Append(treeCalls,
                         [key |-> "licenses",
                          trees |-> trees(manifestsByLicense'),
                          opts |-> [force |-> TRUE]])
  /\ pc' = "done"
  /\ UNCHANGED <<family, cmd, flags, resolved, manifests, warnCalls,
                 tableCalls, stdout, lockfileCalls, hydrateCalls, thrown,
                 rejection>>

\* generateDisclaimer after getManifests (lines 137-147)
generateDisclaimer ==
  /\ pc = "manifests" /\ cmd = "generateDisclaimer"
  /\ stdout' = Append(stdout, stringify(disclaimerData(manifests)))
  /\ pc' = "done"
  /\ UNCHANGED <<family, cmd, flags, resolved, manifests, manifestsByLicense,
                 warnCalls, tableCalls, treeCalls, lockfileCalls,
                 hydrateCalls, thrown, rejection>>

Next ==
  \/ ls
  \/ enter
  \/ lockfileFromDirectory
  \/ hydrate
  \/ listTable
  \/ listTree
  \/ generateDisclaimer

Spec == Init /\ [][Next]_vars
SpecOrder == InitIn({"order"}) /\ [][Next]_vars
SpecGroup == InitIn({"group"}) /\ [][Next]_vars
SpecField == InitIn({"field"}) /\ [][Next]_vars
SpecRender == InitIn({"group", "field"}) /\ [][Next]_vars
SpecDisclaimer == InitIn({"disclaimer"}) /\ [][Next]_vars

TypeOK ==
  /\ pc \in {"start", "getManifests", "hydrate", "manifests", "done", "rejected"}
  /\ lockfileCalls \in 0..1
  /\ hydrateCalls \in 0..1

-----------------------------------------------------------------------------
(* Vocabulary of the properties *)

\* getManifests has returned
Collected == pc \in {"manifests", "done"}
ListDone == pc = "done" /\ cmd \in {"ls", "list"}
DisclaimerDone == pc = "done" /\ cmd = "generateDisclaimer"

Named(m) == m.name # None
RefKept(m) == m._reference # None /\ ~m._reference[1].ignore
NotPrivate(m) == m.private # Some(TRUE)

\* out is src rearranged by the injective p so that named manifests come
\* first, names do not decrease in the locale order, and manifests that are
\* both unnamed or equally named keep their order of src
StableByName(out, src, p) ==
  /\ \A j, k \in 1..Len(out) : j # k => p[j] # p[k]
  /\ \A j \in 1..Len(out) : out[j] = src[p[j]]
  /\ \A j, k \in 1..Len(out) : j < k =>
       /\ Named(out[k]) => Named(out[j])
       /\ Named(out[j]) /\ Named(out[k]) =>
            LocaleRank(out[j].name[1]) <= LocaleRank(out[k].name[1])
       /\ out[j].name = out[k].name => p[j] < p[k]

\* C2: getManifests returns exactly the manifests of the provider's list
\* whose reference is present and not flagged ignore, each once, named
\* before unnamed, named ones in non-decreasing name order, unnamed ones and
\* equally named ones in their order of the provider's list.
C2_CollectSortsAndFilters ==
  Collected =>
    LET kept == SelectSeq(resolved, RefKept)
    IN  /\ Len(manifests) = Len(kept)
        /\ \E p \in [1..Len(manifests) -> 1..Len(kept)] :
             StableByName(manifests, kept, p)

\* a kept unnamed manifest ahead of a kept named one, and two kept manifests
\* of one name, in the provider's list, of which one is dropped
C2_Witness ==
  /\ Collected
  /\ Len(manifests) = 3
  /\ \E i, j \in 1..Len(resolved) :
       i < j /\ ~Named(resolved[i]) /\ Named(resolved[j])
       /\ RefKept(resolved[i]) /\ RefKept(resolved[j])
  /\ \E i, j \in 1..Len(manifests) :
       i # j /\ Named(manifests[i]) /\ manifests[i].name = manifests[j].name
       /\ manifests[i] # manifests[j]

\* the property p of a JSON object, undefined when it has none
Property(o, k) == IF k \in DOMAIN o THEN Some(o[k]) ELSE None

\* the disclaimer entry e is the one of manifest m
EntryOf(e, m) ==
  /\ Property(e, "name") = m.name
  /\ Property(e, "version") = Some(m.version)
  /\ Property(e, "license") = m.license
  /\ Property(e, "homepage") = m.homepage
  /\ ("licenseText" \in DOMAIN e) <=> (m.licenseText # None)

\* C1 as stated: generate-disclaimer writes one entry for each manifest of
\* the provider's list that is not private, ignored ones included, in the
\* order of the provider's list.
C1_RawOrderAllNonPrivate ==
  DisclaimerDone =>
    LET want == SelectSeq(resolved, NotPrivate)
        out == stdout[1]
    IN  /\ Len(out) = Len(want)
        /\ \A i \in 1..Len(out) : EntryOf(out[i], want[i])

PublicAndKept(m) == NotPrivate(m) /\ RefKept(m)

\* C1 amended: generate-disclaimer writes one entry for each manifest of the
\* provider's list that is not private and whose reference is present and
\* not flagged ignore, in the order of getManifests: sorted by name, equal
\* names in the order of the provider's list.
C1_SortedKeptNonPrivate ==
  DisclaimerDone =>
    LET want == SelectSeq(resolved, PublicAndKept)
        out == stdout[1]
    IN  /\ Len(out) = Len(want)
        /\ \E p \in [1..Len(out) -> 1..Len(want)] :
             /\ StableByName([j \in 1..Len(out) |-> want[p[j]]], want, p)
             /\ \A j \in 1..Len(out) : EntryOf(out[j], want[p[j]])

\* an ignored manifest that is not private, and two written manifests that
\* the sort swaps
C1_Witness ==
  /\ DisclaimerDone
  /\ Len(stdout[1]) = 2
  /\ \E i \in 1..Len(resolved) : NotPrivate(resolved[i]) /\ ~RefKept(resolved[i])
  /\ stdout[1][1].name = "a" /\ stdout[1][2].name = "B"
  /\ \E i, j \in 1..Len(resolved) :
       i < j /\ PublicAndKept(resolved[i]) /\ PublicAndKept(resolved[j])
       /\ resolved[i].name = Some("B") /\ resolved[j].name = Some("a")

-----------------------------------------------------------------------------
(* Grouping *)

\* the license key and the package key of a manifest, as the spec words them
LicenseOf(m) == IF m.license = None THEN "UNKNOWN" ELSE m.license[1]
KeyOf(m) == packageKey(m.name, m.version)

\* the buckets that hold an entry under package key k
BucketsWith(k) ==
  {b \in 1..Len(manifestsByLicense) :
     \E e \in 1..Len(manifestsByLicense[b].value) :
        manifestsByLicense[b].value[e].key = k}

\* C3 as stated: after grouping, every manifest has an entry in exactly one
\* bucket, the bucket of its own license or of "UNKNOWN", also when several
\* manifests share one name@version.
C3_ExactlyOneBucket ==
  ListDone =>
    \A i \in 1..Len(manifests) :
      /\ Cardinality(BucketsWith(KeyOf(manifests[i]))) = 1
      /\ \A b \in BucketsWith(KeyOf(manifests[i])) :
           manifestsByLicense[b].key = LicenseOf(manifests[i])

\* C3 amended: after grouping, every manifest has an entry under its
\* name@version in the one bucket keyed by its own license or "UNKNOWN", and
\* a bucket of another key holds an entry under that name@version only when
\* another manifest of that name@version has that license key.
C3_OwnBucket ==
  ListDone =>
    \A i \in 1..Len(manifests) :
      LET m == manifests[i]
          own == {b \in 1..Len(manifestsByLicense) :
                    manifestsByLicense[b].key = LicenseOf(m)}
      IN  /\ Cardinality(own) = 1
          /\ own \subseteq BucketsWith(KeyOf(m))
          /\ \A b \in BucketsWith(KeyOf(m)) :
               \E j \in 1..Len(manifests) :
                  /\ KeyOf(manifests[j]) = KeyOf(m)
                  /\ LicenseOf(manifests[j]) = manifestsByLicense[b].key

\* two manifests of one name@version with different licenses, and two of one
\* name@version with one license
C3_Witness ==
  /\ ListDone
  /\ \E i, j \in 1..Len(manifests) :
       /\ KeyOf(manifests[i]) = KeyOf(manifests[j])
       /\ LicenseOf(manifests[i]) # LicenseOf(manifests[j])
  /\ \E i, j \in 1..Len(manifests) :
       /\ i # j
       /\ KeyOf(manifests[i]) = KeyOf(manifests[j])
       /\ LicenseOf(manifests[i]) = LicenseOf(manifests[j])

\* the manifests written under license key lk and package key k
Writers(lk, k) ==
  {i \in 1..Len(manifests) :
     LicenseOf(manifests[i]) = lk /\ KeyOf(manifests[i]) = k}
WritersOfBucket(lk) ==
  {i \in 1..Len(manifests) : LicenseOf(manifests[i]) = lk}
Min(S) == CHOOSE x \in S : \A y \in S : x <= y
Max(S) == CHOOSE x \in S : \A y \in S : x >= y

\* the url the spec gives a manifest: the repository URL when there is one,
\* else the homepage
SpecUrl(m) ==
  IF m.repository # None /\ m.repository[1].url # None
  THEN m.repository[1].url ELSE m.homepage

\* C4: the url of an entry is the repository URL of its manifest when that
\* is present and the homepage otherwise, also for a repository record that
\* has no url.
C4_UrlFallsBackToHomepage ==
  ListDone =>
    \A b \in 1..Len(manifestsByLicense) :
      \A e \in 1..Len(manifestsByLicense[b].value) :
        LET entry == manifestsByLicense[b].value[e]
            w == Writers(manifestsByLicense[b].key, entry.key)
        IN  w # {} => entry.value.url = SpecUrl(manifests[Max(w)])

\* C7: after grouping, buckets are in the order of the first manifest of
\* each license key, entries of a bucket in the order of the first manifest
\* of each package key, package keys are unique in a bucket, and an entry
\* holds the values of the last manifest written under its keys.
C7_BucketOrderAndLastWrite ==
  ListDone =>
    /\ \A b \in 1..Len(manifestsByLicense) :
         WritersOfBucket(manifestsByLicense[b].key) # {}
    /\ \A b, c \in 1..Len(manifestsByLicense) : b < c =>
         /\ manifestsByLicense[b].key # manifestsByLicense[c].key
         /\ Min(WritersOfBucket(manifestsByLicense[b].key))
              < Min(WritersOfBucket(manifestsByLicense[c].key))
    /\ \A b \in 1..Len(manifestsByLicense) :
         LET lk == manifestsByLicense[b].key
             entries == manifestsByLicense[b].value
         IN  /\ \A e \in 1..Len(entries) :
                  /\ Writers(lk, entries[e].key) # {}
                  /\ LET last == manifests[Max(Writers(lk, entries[e].key))]
                     IN  /\ entries[e].value.name = last.name
                         /\ entries[e].value.version = last.version
                         /\ entries[e].value.url = url(last)
                         /\ entries[e].value.vendorUrl = vendorUrl(last)
                         /\ entries[e].value.vendorName = vendorName(last)
             /\ \A e, f \in 1..Len(entries) : e < f =>
                  /\ entries[e].key # entries[f].key
                  /\ Min(Writers(lk, entries[e].key))
                       < Min(Writers(lk, entries[f].key))

\* a bucket in which a package key is written twice with different values
\* around a write of another key
C7_Witness ==
  /\ ListDone
  /\ \E i, j, k \in 1..Len(manifests) :
       /\ i < j /\ j < k
       /\ LicenseOf(manifests[i]) = LicenseOf(manifests[k])
       /\ LicenseOf(manifests[i]) = LicenseOf(manifests[j])
       /\ KeyOf(manifests[i]) = KeyOf(manifests[k])
       /\ KeyOf(manifests[i]) # KeyOf(manifests[j])
       /\ manifests[i].homepage # manifests[k].homepage

-----------------------------------------------------------------------------
(* Rendering *)

\* a field of an entry is present when it holds a non-empty string, which
\* is how the code tests it
Present(o) == o # None /\ o[1] # ""

\* the number of entries in the buckets ahead of bucket b
RECURSIVE EntriesBefore(_)
EntriesBefore(b) ==
  IF b <= 1 THEN 0
  ELSE EntriesBefore(b - 1) + Len(manifestsByLicense[b - 1].value)

\* the table column of a field of an entry
Column(cell, field) ==
  /\ cell # ""
  /\ Present(field) => cell = field[1]
  /\ ~Present(field) => cell = "Unknown"

\* C5: with the json flag, reporter.table gets the fixed header and one row
\* of six columns per entry, in bucket order and then in-bucket order, with
\* "Unknown" in the url, vendorUrl and vendorName columns of absent fields
\* and never an empty string.
C5_TableRows ==
  ListDone /\ flags.json =>
    /\ Len(tableCalls) = 1
    /\ tableCalls[1].head =
         <<"Name", "Version", "License", "URL", "VendorUrl", "VendorName">>
    /\ Len(tableCalls[1].body) = EntriesBefore(Len(manifestsByLicense) + 1)
    /\ \A b \in 1..Len(manifestsByLicense) :
         \A e \in 1..Len(manifestsByLicense[b].value) :
           LET info == manifestsByLicense[b].value[e].value
               row == tableCalls[1].body[EntriesBefore(b) + e]
           IN  /\ Len(row) = 6
               /\ row[1] = info.name
               /\ row[2] = info.version
               /\ row[3] = manifestsByLicense[b].key
               /\ Column(row[4], info.url)
               /\ Column(row[5], info.vendorUrl)
               /\ Column(row[6], info.vendorName)

\* a table of two buckets, the first of two entries
C5_WitnessOrder ==
  /\ ListDone /\ flags.json
  /\ Len(manifestsByLicense) = 2
  /\ Len(manifestsByLicense[1].value) = 2
  /\ Len(tableCalls[1].body) = 3

\* a table row with an empty vendorName, an undefined url and a vendorUrl
C5_WitnessFields ==
  /\ ListDone /\ flags.json
  /\ \E b \in 1..Len(manifestsByLicense) :
       \E e \in 1..Len(manifestsByLicense[b].value) :
         LET info == manifestsByLicense[b].value[e].value
         IN  /\ info.vendorName = Some("")
             /\ info.url = None
             /\ Present(info.vendorUrl)

LeafLabels == <<"URL:", "VendorUrl:", "VendorName:">>
LabelRank(l) == CHOOSE i \in 1..3 : LeafLabels[i] = l

\* the leaves of a package node for the fields of its entry
Leaves(children, info) ==
  LET fields == <<info.url, info.vendorUrl, info.vendorName>>
  IN  /\ Len(children) <= 3
      /\ \A c \in 1..Len(children) :
           /\ children[c].name.bold \in {LeafLabels[i] : i \in 1..3}
           /\ children[c].name.text = fields[LabelRank(children[c].name.bold)][1]
      /\ \A c, d \in 1..Len(children) : c < d =>
           LabelRank(children[c].name.bold) < LabelRank(children[d].name.bold)
      /\ \A i \in 1..3 :
           Present(fields[i]) <=>
             \E c \in 1..Len(children) : children[c].name.bold = LeafLabels[i]

\* C6: without the json flag, reporter.tree gets the root label "licenses",
\* one node per bucket labelled with the license key in bucket order, under
\* it one node per entry labelled name@version in in-bucket order, and under
\* that the leaves URL, VendorUrl, VendorName in this order, each exactly
\* when its field is present.
C6_TreeShape ==
  ListDone /\ ~flags.json =>
    /\ Len(treeCalls) = 1
    /\ treeCalls[1].key = "licenses"
    /\ treeCalls[1].opts.force
    /\ Len(treeCalls[1].trees) = Len(manifestsByLicense)
    /\ \A b \in 1..Len(manifestsByLicense) :
         LET node == treeCalls[1].trees[b]
             entries == manifestsByLicense[b].value
         IN  /\ node.name = manifestsByLicense[b].key
             /\ Len(node.children) = Len(entries)
             /\ \A e \in 1..Len(entries) :
                  /\ node.children[e].name =
                       packageKey(entries[e].value.name, entries[e].value.version)
                  /\ Leaves(node.children[e].children, entries[e].value)

\* a tree of two buckets, the first of two entries
C6_WitnessOrder ==
  /\ ListDone /\ ~flags.json
  /\ Len(treeCalls[1].trees) = 2
  /\ Len(treeCalls[1].trees[1].children) = 2

\* package nodes of no, of two and of three leaves
C6_WitnessLeaves ==
  /\ ListDone /\ ~flags.json
  /\ \E b \in 1..Len(treeCalls[1].trees) :
       \E e \in 1..Len(treeCalls[1].trees[b].children) :
         LET kids == treeCalls[1].trees[b].children[e].children
         IN  /\ Len(kids) = 2
             /\ kids[1].name.bold = "URL:"
             /\ kids[2].name.bold = "VendorName:"

-----------------------------------------------------------------------------
(* The command surface *)

Rejected == pc = "rejected"
PresenterCalls == Len(tableCalls) + Len(treeCalls)
\* a JSON array: a sequence of objects
IsJsonArray(j) == DOMAIN j = 1..Len(j)

\* C8: a finished list or ls has called exactly one presenter once, table
\* with the json flag and tree with the force option without, and has
\* written nothing to standard output; a finished generate-disclaimer has
\* written one JSON array and called no presenter, whatever the json flag.
C8_OnePresenter ==
  /\ PresenterCalls + Len(stdout) <= 1
  /\ ListDone =>
       /\ stdout = <<>>
       /\ flags.json => Len(tableCalls) = 1 /\ treeCalls = <<>>
       /\ ~flags.json =>
            Len(treeCalls) = 1 /\ tableCalls = <<>> /\ treeCalls[1].opts.force
  /\ DisclaimerDone =>
       /\ Len(stdout) = 1
       /\ IsJsonArray(stdout[1])
       /\ PresenterCalls = 0

C8_WitnessTable == ListDone /\ flags.json /\ Len(tableCalls[1].body) > 0
C8_WitnessDisclaimer == DisclaimerDone /\ flags.json /\ Len(stdout[1]) > 0

\* C9 as stated: when a provider step fails, run rejects with the provider's
\* error, each provider step has been called at most once, and nothing at
\* all has been emitted.
C9_NoOutputAtAll ==
  Rejected =>
    /\ rejection = thrown /\ thrown # None
    /\ lockfileCalls = 1 /\ hydrateCalls <= 1
    /\ PresenterCalls = 0 /\ stdout = <<>>
    /\ warnCalls = <<>>

\* C9 amended: when a provider step fails, run rejects with the provider's
\* error, each provider step has been called at most once and before any
\* grouping or rendering, and nothing has been emitted but the deprecation
\* warning of ls.
C9_OnlyTheWarning ==
  /\ lockfileCalls <= 1 /\ hydrateCalls <= 1
  /\ manifestsByLicense # <<>> \/ PresenterCalls + Len(stdout) > 0 =>
       lockfileCalls = 1 /\ hydrateCalls = 1 /\ thrown = None
  /\ Rejected =>
       /\ rejection = thrown /\ thrown # None
       /\ lockfileCalls = 1
       /\ PresenterCalls = 0 /\ stdout = <<>> /\ manifestsByLicense = <<>>
       /\ warnCalls = IF cmd = "ls" THEN <<deprecation>> ELSE <<>>

\* ls rejected by a failed hydrate
C9_Witness ==
  Rejected /\ cmd = "ls" /\ hydrateCalls = 1 /\ warnCalls # <<>>

\* C10: ls warns exactly once, before the provider is called and before
\* anything is rendered, and then hands reporter the call that list hands
\* it for the same manifests and flags; list and generate-disclaimer never
\* warn.
C10_LsWarnsThenLists ==
  /\ cmd # "ls" => warnCalls = <<>>
  /\ cmd = "ls" /\ pc = "start" =>
       warnCalls = <<>> /\ lockfileCalls = 0 /\ PresenterCalls = 0
  /\ cmd = "ls" /\ pc # "start" => warnCalls = <<deprecation>>
  /\ lockfileCalls + hydrateCalls + PresenterCalls > 0 /\ cmd = "ls" =>
       Len(warnCalls) = 1
  /\ ListDone =>
       LET grouped == group(getManifests(resolved))
       IN  /\ tableCalls = IF flags.json
                           THEN <<[head |-> tableHead, body |-> tableBody(grouped)]>>
                           ELSE <<>>
           /\ treeCalls = IF flags.json THEN <<>>
                          ELSE <<[key |-> "licenses", trees |-> trees(grouped),
                                  opts |-> [force |-> TRUE]]>>

C10_Witness ==
  ListDone /\ cmd = "ls" /\ flags.json /\ Len(tableCalls[1].body) > 0

====
